---- MODULE Spec2Model ----
(***************************************************************************)
(* Model of the two command-line scripts of the repository:                *)
(*   gemini.py   - chat loop that augments a message with search results   *)
(*   img_gen.py  - speech-to-image pipeline (validate, transcribe,         *)
(*                 generate, download)                                     *)
(*                                                                         *)
(* A Python str is modelled as a sequence of pieces.  Text the program     *)
(* inspects (typed input, transcripts, keys) is a sequence of              *)
(* one-character pieces; a string literal of the source, and a provider's  *)
(* text the program only passes on, is one piece.  An f-string is the      *)
(* concatenation of its parts.                                             *)
(***************************************************************************)
EXTENDS Integers, Sequences, FiniteSets, TLC

VARIABLES
    \* ---- is_real_time_query applied to one input (gemini.py:14-24)
    query,          \* the argument user_input
    isRT,           \* <<>> until the function has returned, then <<result>>
    \* ---- mask_key applied to one input (img_gen.py:45-47)
    key,            \* the argument key
    masked,         \* <<>> until the function has returned, then <<result>>
    \* ---- gemini.py main loop
    pc,             \* position of the chat script
    sessions,       \* number of chat sessions created by model.start_chat
    chat_session,   \* handle held by main (0 = none yet)
    turn,           \* number of input lines read so far
    user_input,     \* stripped input of the current turn
    prompt,         \* local variable prompt of generate_response
    search,         \* the search of this turn: requests.get calls issued, the
                    \* provider's response and the outcome of fetch_search_results
    chatCalls,      \* send_message calls of this turn: <<[session, prompt]>>
    outcome,        \* "none", "Responded" or "Failed"
    printed,        \* lines printed during this turn
    failures,       \* number of turns that ended Failed so far
    \* ---- img_gen.py main
    ipc,            \* position of the speech-to-image script
    args,           \* parsed command line: api_key (<<>> = not given), dry_run
    audio,          \* what lies at the --audio path
    envKey,         \* MONSTER_API_KEY of the environment (<<>> = unset)
    outFile,        \* file at args.out: "absent", "old" or "image"
    net,            \* network calls issued so far, in order
    responses,      \* what the network calls produced so far, in order
    transcript,     \* local variable transcript of main
    stdout,         \* messages printed to stdout
    stderr,         \* messages printed to stderr
    exitStatus      \* -1 while running, then the process exit status

clsVars  == <<query, isRT>>
maskVars == <<key, masked>>
chatVars == <<pc, sessions, chat_session, turn, user_input, prompt, search,
              chatCalls, outcome, printed, failures>>
imgVars  == <<ipc, args, audio, envKey, outFile, net, responses, transcript,
              stdout, stderr, exitStatus>>
vars     == <<clsVars, maskVars, chatVars, imgVars>>

----------------------------------------------------------------------------
(* Bounds of the model *)

MaxFrags  == 2      \* fragments per classifier input
MaxKeyLen == 10     \* characters per API key
MaxTurns  == 2      \* input lines read by the chat loop
MaxItems  == 4      \* items in one search response

----------------------------------------------------------------------------
(* Python str operations *)

Min(a, b) == IF a < b THEN a ELSE b
Max(a, b) == IF a > b THEN a ELSE b

UpperLetters == <<"A","B","C","D","E","F","G","H","I","J","K","L","M",
                  "N","O","P","Q","R","S","T","U","V","W","X","Y","Z">>
LowerLetters == <<"a","b","c","d","e","f","g","h","i","j","k","l","m",
                  "n","o","p","q","r","s","t","u","v","w","x","y","z">>

\* str.lower() on one character
LowerChar(c) ==
    IF \E i \in 1..26 : UpperLetters[i] = c
    THEN LowerLetters[CHOOSE i \in 1..26 : UpperLetters[i] = c]
    ELSE c

\* str.lower()
Lower(s) == [i \in 1..Len(s) |-> LowerChar(s[i])]

Whitespace == {" ", "\t", "\n"}

RECURSIVE LStrip(_)
LStrip(s) ==
    IF s # <<>> /\ Head(s) \in Whitespace THEN LStrip(Tail(s)) ELSE s

RECURSIVE RStrip(_)
RStrip(s) ==
    IF s # <<>> /\ s[Len(s)] \in Whitespace
    THEN RStrip(SubSeq(s, 1, Len(s) - 1)) ELSE s

\* str.strip()
Strip(s) == RStrip(LStrip(s))

\* the Python expression  k in s  for strings: scan of the start offsets
RECURSIVE FindFrom(_, _, _)
FindFrom(k, s, i) ==
    IF i + Len(k) - 1 > Len(s) THEN FALSE
    ELSE IF SubSeq(s, i, i + Len(k) - 1) = k THEN TRUE
    ELSE FindFrom(k, s, i + 1)

StrIn(k, s) == FindFrom(k, s, 1)

\* s[:n] for n >= 0
SliceTo(s, n) == SubSeq(s, 1, Min(n, Len(s)))

\* s[-n:] for n > 0
SliceLast(s, n) == SubSeq(s, Max(Len(s) - n, 0) + 1, Len(s))

\* c * n  (the empty string when n <= 0)
Repeat(c, n) == IF n <= 0 THEN <<>> ELSE [i \in 1..n |-> c]

\* "\n".join(lines)
RECURSIVE Join(_, _)
Join(sep, lines) ==
    IF lines = <<>> THEN <<>>
    ELSE IF Len(lines) = 1 THEN lines[1]
    ELSE lines[1] \o sep \o Join(sep, Tail(lines))

----------------------------------------------------------------------------
(* gemini.py: is_real_time_query *)

REAL_TIME_KEYWORDS ==
    << <<"c","u","r","r","e","n","t">>,
       <<"p","r","i","c","e">>,
       <<"w","e","a","t","h","e","r">>,
       <<"t","o","d","a","y">>,
       <<"n","o","w">>,
       <<"l","i","v","e">> >>

\* any(keyword in user_input.lower() for keyword in REAL_TIME_KEYWORDS)
RECURSIVE AnyKeyword(_, _)
AnyKeyword(kws, lowered) ==
    IF kws = <<>> THEN FALSE
    ELSE IF StrIn(Head(kws), lowered) THEN TRUE
    ELSE AnyKeyword(Tail(kws), lowered)

is_real_time_query_NoLower(input) == AnyKeyword(REAL_TIME_KEYWORDS, input)

is_real_time_query(input) == AnyKeyword(REAL_TIME_KEYWORDS, Lower(input))

----------------------------------------------------------------------------
(* img_gen.py: mask_key *)

mask_key_Off(k) ==
    IF Len(k) > 9
    THEN SliceTo(k, 4) \o Repeat("*", Len(k) - 8) \o SliceLast(k, 4)
    ELSE Repeat("*", Len(k))

mask_key(k) ==
    IF Len(k) > 8
    THEN SliceTo(k, 4) \o Repeat("*", Len(k) - 8) \o SliceLast(k, 4)
    ELSE Repeat("*", Len(k))

----------------------------------------------------------------------------
(* gemini.py: fetch_search_results and generate_response *)

\* Outcome of a call: the value returned, or the text of the error raised
Returned(v) == [ok |-> TRUE, val |-> v]
Raised(e)   == [ok |-> FALSE, val |-> e]

\* f"- {item['title']}: {item['snippet']}"
FormatItem(item) == <<"- ">> \o item.title \o <<": ">> \o item.snippet

\* the first key lookup that raises KeyError while the list comprehension
\* of line 52 runs over top, as str(KeyError)
FirstMissingKey(top) ==
    LET i == CHOOSE j \in 1..Len(top) :
                 /\ top[j].keys # {"title", "snippet"}
                 /\ \A h \in 1..(j - 1) : top[h].keys = {"title", "snippet"}
    IN IF "title" \notin top[i].keys THEN <<"'title'">> ELSE <<"'snippet'">>

Summarize_NoLimit(results) ==
    IF \E j \in 1..Len(results) : results[j].keys # {"title", "snippet"}
    THEN Raised(FirstMissingKey(results))
    ELSE Returned(<<"Real-time data from search:\n">>
                  \o Join(<<"\n">>, [j \in 1..Len(results) |-> FormatItem(results[j])]))

\* lines 52-53: summary of results[:3] under the header
Summarize(results) ==
    LET top == SliceTo(results, 3) IN
    IF \E j \in 1..Len(top) : top[j].keys # {"title", "snippet"}
    THEN Raised(FirstMissingKey(top))
    ELSE Returned(<<"Real-time data from search:\n">>
                  \o Join(<<"\n">>, [j \in 1..Len(top) |-> FormatItem(top[j])]))

\* fetch_search_results, given what requests.get / raise_for_status / json
\* produce.  resp.kind is "raise" (a RequestException with text resp.err),
\* "bad_json" (response.json() raises; requests raises a RequestException
\* subclass or a plain ValueError depending on its version: wrapJson) or
\* "json" (a parsed body with keys resp.keys).
fetch_search_results(resp, wrapJson) ==
    IF resp.kind = "raise"
    THEN Raised(<<"Error fetching search results: ">> \o resp.err)
    ELSE IF resp.kind = "bad_json"
    THEN IF wrapJson
         THEN Raised(<<"Error fetching search results: ">> \o resp.err)
         ELSE Raised(resp.err)
    ELSE LET results == IF "items" \in resp.keys THEN resp.items ELSE <<>> IN
         IF results = <<>>
         THEN Returned(<<"No relevant search results found.">>)
         ELSE Summarize(results)

AugmentedPrompt_NoText(input, r) ==
    IF r.ok
    THEN input \o <<"\n\n">> \o r.val
    ELSE input \o <<"\n\n">>
               \o <<"Note: Could not fetch real-time data due to error: ">>

\* lines 74-78: the prompt after the search attempt with outcome r
AugmentedPrompt(input, r) ==
    IF r.ok
    THEN input \o <<"\n\n">> \o r.val
    ELSE input \o <<"\n\n">>
               \o <<"Note: Could not fetch real-time data due to error: ">>
               \o r.val

AfterClassify_AlwaysSearch(input) == "searching"

\* line 73: the branch taken after the classifier
AfterClassify(input) ==
    IF is_real_time_query(input) THEN "searching" ELSE "invoking"

\* line 84: the error generate_response raises when send_message fails
ChatError(e) == <<"Error generating response with Gemini: ">> \o e

\* line 106
ErrorLine(e) == <<"Error: ">> \o e \o <<". Please try again.">>

\* line 104
AssistantLine(text) == <<"Assistant: ">> \o text

AfterTurn_BreakOnFailure(outc) == IF outc = "Failed" THEN "done" ELSE "idle"

\* lines 96, 102-106: where the loop continues once the turn has ended
AfterTurn(outc) == "idle"

ExitWord == <<"e","x","i","t">>

----------------------------------------------------------------------------
(* States of the parts a specification does not run *)

NoSearch == [calls |-> 0, state |-> "none", items |-> <<>>, err |-> <<>>]

ClsOff  == query = <<>> /\ isRT = <<>>
MaskOff == key = <<>> /\ masked = <<>>
ChatOff ==
    /\ pc = "off" /\ sessions = 0 /\ chat_session = 0 /\ turn = 0
    /\ user_input = <<>> /\ prompt = <<>> /\ search = NoSearch
    /\ chatCalls = <<>> /\ outcome = "none" /\ printed = <<>> /\ failures = 0
ImgOff ==
    /\ ipc = "off"
    /\ args = [api_key |-> <<>>, dry_run |-> FALSE]
    /\ audio = "missing"
    /\ envKey = <<>> /\ outFile = "absent" /\ net = <<>>
    /\ responses = <<>> /\ transcript = <<>>
    /\ stdout = <<>> /\ stderr = <<>> /\ exitStatus = -1

----------------------------------------------------------------------------
(* Specification SpecClassifier: is_real_time_query on bounded inputs *)

Frags ==
    { <<"n","o","w">>, <<"N","o","W">>, <<"n","o">>, <<"w">>,
      <<"l","i","v","e">>, <<"L","I","V">>, <<"E">>, <<" ">>,
      <<"p","r","i","c","e">>, <<"T","o","d","a","y">>,
      <<"w","e","a","t","h","e","r">>, <<"C","u","r","r","e","n","t">>,
      <<"j","o","k","e">>, <<"k">> }

\* the inputs: concatenations of at most n fragments
RECURSIVE Concats(_)
Concats(n) ==
    IF n = 0 THEN { <<>> }
    ELSE LET prev == Concats(n - 1)
         IN prev \cup { p \o f : p \in prev, f \in Frags }

ClsInit ==
    /\ query \in Concats(MaxFrags)
    /\ isRT = <<>>
    /\ MaskOff /\ ChatOff /\ ImgOff

Classify ==
    /\ isRT = <<>>
    /\ isRT' = << is_real_time_query(query) >>
    /\ UNCHANGED <<query, maskVars, chatVars, imgVars>>

ClsNext == Classify

SpecClassifier == ClsInit /\ [][ClsNext]_vars

----------------------------------------------------------------------------
(* Specification SpecMask: mask_key on bounded inputs *)

KeyChars == {"a", "b"}

Keys == UNION { [1..n -> KeyChars] : n \in 0..MaxKeyLen }

MaskInit ==
    /\ key \in Keys
    /\ masked = <<>>
    /\ ClsOff /\ ChatOff /\ ImgOff

Mask ==
    /\ masked = <<>>
    /\ masked' = << mask_key(key) >>
    /\ UNCHANGED <<key, clsVars, chatVars, imgVars>>

MaskNext == Mask

SpecMask == MaskInit /\ [][MaskNext]_vars

----------------------------------------------------------------------------
(* Specification SpecChat: main of gemini.py *)

\* lines typed at the prompt, before .strip()
RawInputs ==
    { <<"e","x","i","t">>,
      <<" ","E","x","i","T","\t">>,
      <<"e","x","i","t"," ","n","o","w">>,
      <<"j","o","k","e">>,
      <<" ","N","o","w">>,
      <<"l","i","v","e"," ">>,
      <<>> }

ItemA == [keys |-> {"title", "snippet"}, title |-> <<"T1">>, snippet |-> <<"s1">>]
ItemB == [keys |-> {"title", "snippet"}, title |-> <<"T2">>, snippet |-> <<"s2">>]
ItemNoSnippet == [keys |-> {"title"}, title |-> <<"T3">>, snippet |-> <<>>]

ItemSeqs == UNION { [1..n -> {ItemA, ItemB, ItemNoSnippet}] : n \in 0..MaxItems }

SearchResponses ==
    { [kind |-> "raise", err |-> <<"503 Server Error">>, keys |-> {}, items |-> <<>>],
      [kind |-> "bad_json", err |-> <<"Expecting value">>, keys |-> {}, items |-> <<>>],
      [kind |-> "json", err |-> <<>>, keys |-> {}, items |-> <<>>] }
    \cup { [kind |-> "json", err |-> <<>>, keys |-> {"items"}, items |-> s] : s \in ItemSeqs }

Replies    == { <<"Hello!">>, <<>> }
ChatErrors == { <<"429 quota exceeded">> }

ChatInit ==
    /\ pc = "start" /\ sessions = 0 /\ chat_session = 0 /\ turn = 0
    /\ user_input = <<>> /\ prompt = <<>> /\ search = NoSearch
    /\ chatCalls = <<>> /\ outcome = "none" /\ printed = <<>> /\ failures = 0
    /\ ClsOff /\ MaskOff /\ ImgOff

\* lines 90-94: the banner and the one chat session of the run
StartChat ==
    /\ pc = "start"
    /\ sessions' = sessions + 1
    /\ chat_session' = sessions + 1
    /\ printed' = << <<"Intelligent Chatbot with Gemini and Real-Time Search">>,
                     <<"Type 'exit' to quit.">> >>
    /\ pc' = "idle"
    /\ UNCHANGED <<turn, user_input, prompt, search, chatCalls, outcome, failures>>

\* lines 97-100 and generate_response up to its first outbound call:
\* the search request of line 44, or send_message of line 81
ReadInput(raw) ==
    /\ pc = "idle"
    /\ turn < MaxTurns
    /\ turn' = turn + 1
    /\ user_input' = Strip(raw)
    /\ outcome' = "none"
    /\ UNCHANGED <<sessions, chat_session, failures>>
    /\ IF Lower(Strip(raw)) = ExitWord
       THEN /\ printed' = << <<"Goodbye!">> >>
            /\ pc' = "done"
            /\ prompt' = <<>>
            /\ search' = NoSearch
            /\ chatCalls' = <<>>
       ELSE /\ printed' = <<>>
            /\ prompt' = Strip(raw)
            /\ pc' = AfterClassify(Strip(raw))
            /\ IF pc' = "searching"
               THEN /\ search' = [NoSearch EXCEPT !.calls = 1]
                    /\ chatCalls' = <<>>
               ELSE /\ search' = NoSearch
                    /\ chatCalls' = << [session |-> chat_session,
                                        prompt |-> Strip(raw)] >>

\* lines 44-55 and 76-81: the search provider answers (or the request
\* fails); the prompt is composed and send_message is issued
SearchResponds(resp, wrapJson) ==
    /\ pc = "searching"
    /\ LET r == fetch_search_results(resp, wrapJson) IN
       /\ search' = [calls |-> search.calls,
                     state |-> IF r.ok THEN "returned" ELSE "raised",
                     items |-> IF resp.kind = "json" /\ "items" \in resp.keys
                               THEN resp.items ELSE <<>>,
                     err   |-> IF r.ok THEN <<>> ELSE r.val]
       /\ prompt' = AugmentedPrompt(user_input, r)
       /\ chatCalls' = Append(chatCalls, [session |-> chat_session,
                                          prompt |-> prompt'])
    /\ pc' = "invoking"
    /\ UNCHANGED <<sessions, chat_session, turn, user_input, outcome, printed,
                   failures>>

\* lines 82, 104: the chat provider replies
ChatReplies(text) ==
    /\ pc = "invoking"
    /\ outcome' = "Responded"
    /\ printed' = Append(printed, AssistantLine(text))
    /\ pc' = AfterTurn("Responded")
    /\ UNCHANGED <<sessions, chat_session, turn, user_input, prompt, search,
                   chatCalls, failures>>

\* lines 83-84, 105-106: send_message (or response.text) raises
ChatRaises(e) ==
    /\ pc = "invoking"
    /\ outcome' = "Failed"
    /\ printed' = Append(printed, ErrorLine(ChatError(e)))
    /\ pc' = AfterTurn("Failed")
    /\ failures' = failures + 1
    /\ UNCHANGED <<sessions, chat_session, turn, user_input, prompt, search,
                   chatCalls>>

ChatNext ==
    \/ StartChat /\ UNCHANGED <<clsVars, maskVars, imgVars>>
    \/ \E raw \in RawInputs : ReadInput(raw) /\ UNCHANGED <<clsVars, maskVars, imgVars>>
    \/ \E resp \in SearchResponses, w \in BOOLEAN :
          SearchResponds(resp, w) /\ UNCHANGED <<clsVars, maskVars, imgVars>>
    \/ \E text \in Replies : ChatReplies(text) /\ UNCHANGED <<clsVars, maskVars, imgVars>>
    \/ \E e \in ChatErrors : ChatRaises(e) /\ UNCHANGED <<clsVars, maskVars, imgVars>>

SpecChat == ChatInit /\ [][ChatNext]_vars

----------------------------------------------------------------------------
(* img_gen.py: the functions main calls *)

AudioPath == <<"in.mp3">>
OutPath   == <<"output.png">>

\* get_api_key: args.api_key or os.getenv("MONSTER_API_KEY"); None and ""
\* are both falsy and both modelled as <<>>
get_api_key(api_key, env) ==
    LET k == IF api_key # <<>> THEN api_key ELSE env IN
    IF k = <<>>
    THEN Raised(<<"MonsterAPI key not provided. Use --api_key or set MONSTER_API_KEY env var.">>)
    ELSE Returned(k)

validate_audio_NoExistsCheck(kind) ==
    IF kind = "dir"
    THEN Raised(<<"Path is not a file: ">> \o AudioPath)
    ELSE IF kind = "unreadable"
    THEN Raised(<<"Audio file not readable: ">> \o <<"[Errno 13] Permission denied">>)
    ELSE Returned(<<"Audio file validated: ">> \o AudioPath)

\* validate_audio: the error raised, or the line printed on success
validate_audio(kind) ==
    IF kind = "missing"
    THEN Raised(<<"Audio file not found: ">> \o AudioPath)
    ELSE IF kind = "dir"
    THEN Raised(<<"Path is not a file: ">> \o AudioPath)
    ELSE IF kind = "unreadable"
    THEN Raised(<<"Audio file not readable: ">> \o <<"[Errno 13] Permission denied">>)
    ELSE Returned(<<"Audio file validated: ">> \o AudioPath)

transcribe_audio_NoBlankCheck(resp) ==
    IF resp.kind = "raise" THEN Raised(resp.body)
    ELSE IF resp.status # 200
    THEN Raised(<<"Transcription failed: ">> \o <<ToString(resp.status)>>
                \o <<" - ">> \o resp.body)
    ELSE IF resp.textTag = "absent" THEN Returned(<<>>)
    ELSE IF resp.textTag = "null"
    THEN Raised(<<"'NoneType' object has no attribute 'strip'">>)
    ELSE Returned(resp.text)

\* transcribe_audio from the response of line 90 on (lines 91-98).
\* resp.kind is "raise" (requests.post raised, text resp.body) or "http";
\* resp.textTag tells whether the JSON body has a "text" key and whether it
\* is null
transcribe_audio(resp) ==
    IF resp.kind = "raise" THEN Raised(resp.body)
    ELSE IF resp.status # 200
    THEN Raised(<<"Transcription failed: ">> \o <<ToString(resp.status)>>
                \o <<" - ">> \o resp.body)
    ELSE IF resp.textTag = "null"
    THEN Raised(<<"'NoneType' object has no attribute 'strip'">>)
    ELSE LET t == Strip(IF resp.textTag = "absent" THEN <<>> ELSE resp.text) IN
         IF t = <<>> THEN Raised(<<"No transcript generated.">>)
         ELSE Returned(t)

\* line 129: result.get("output", [None])[0].  output.tag is "absent" (no
\* such key), "null" or "list"; an element is [tag |-> "null" | "str", s]
FirstOutput(output) ==
    IF output.tag = "absent" THEN Returned([tag |-> "null", s |-> <<>>])
    ELSE IF output.tag = "null"
    THEN Raised(<<"'NoneType' object is not subscriptable">>)
    ELSE IF output.elems = <<>>
    THEN Raised(<<"list index out of range">>)
    ELSE Returned(output.elems[1])

\* lines 126-131 of generate_image: the image URL, or the error raised
image_url(resp) ==
    IF resp.kind = "raise" THEN Raised(resp.body)
    ELSE IF resp.status # 200
    THEN Raised(<<"Image generation failed: ">> \o <<ToString(resp.status)>>
                \o <<" - ">> \o resp.body)
    ELSE LET first == FirstOutput(resp.output) IN
         IF ~first.ok THEN first
         ELSE IF first.val.tag = "null" \/ first.val.s = <<>>
         THEN Raised(<<"No image URL in response.">>)
         ELSE Returned(first.val.s)

\* lines 133-138 of generate_image: the error raised, or the line printed
\* once the file has been written
download(resp) ==
    IF resp.kind = "raise" THEN Raised(resp.body)
    ELSE IF resp.status # 200 THEN Raised(<<"Failed to download image.">>)
    ELSE Returned(<<"Image saved to ">> \o OutPath)

\* line 174
StderrLine(e) == <<"Error: ">> \o e

----------------------------------------------------------------------------
(* Specification SpecImg: main of img_gen.py *)

ApiKeys == { <<>>, <<"s","k","-","1","2","3","4","5","6","7">> }
EnvKeys == { <<>>, <<"e","n","v","k","e","y">> }
AudioKinds == { "missing", "dir", "unreadable", "file" }

Texts ==
    { <<>>, <<" ">>, <<" ", "\n">>, <<"c","a","t">>,
      <<" ","a"," ","c","a","t","\n">> }

TranscribeResponses ==
    { [kind |-> "raise", status |-> 0, body |-> <<"Connection refused">>,
       textTag |-> "absent", text |-> <<>>],
      [kind |-> "http", status |-> 500, body |-> <<"Internal Server Error">>,
       textTag |-> "absent", text |-> <<>>],
      [kind |-> "http", status |-> 200, body |-> <<"{}">>,
       textTag |-> "absent", text |-> <<>>],
      [kind |-> "http", status |-> 200, body |-> <<"{...}">>,
       textTag |-> "null", text |-> <<>>] }
    \cup { [kind |-> "http", status |-> 200, body |-> <<"{...}">>,
            textTag |-> "str", text |-> t] : t \in Texts }

Url == <<"https://cdn.example/img.png">>

Elems == { [tag |-> "null", s |-> <<>>], [tag |-> "str", s |-> <<>>],
           [tag |-> "str", s |-> Url] }

Outputs ==
    { [tag |-> "absent", elems |-> <<>>], [tag |-> "null", elems |-> <<>>] }
    \cup { [tag |-> "list", elems |-> e] : e \in UNION { [1..n -> Elems] : n \in 0..2 } }

GenerateResponses ==
    { [kind |-> "raise", status |-> 0, body |-> <<"Connection refused">>,
       output |-> [tag |-> "absent", elems |-> <<>>]],
      [kind |-> "http", status |-> 500, body |-> <<"Internal Server Error">>,
       output |-> [tag |-> "absent", elems |-> <<>>]] }
    \cup { [kind |-> "http", status |-> 200, body |-> <<"{...}">>, output |-> o] :
             o \in Outputs }

DownloadResponses ==
    { [kind |-> "raise", status |-> 0, body |-> <<"Connection reset">>],
      [kind |-> "http", status |-> 404, body |-> <<"Not Found">>],
      [kind |-> "http", status |-> 200, body |-> <<"PNG">>] }

ImgInit ==
    /\ ipc = "start"
    /\ args \in [api_key : ApiKeys, dry_run : BOOLEAN]
    /\ audio \in AudioKinds
    /\ envKey \in EnvKeys
    /\ outFile \in {"absent", "old"}
    /\ net = <<>> /\ responses = <<>> /\ transcript = <<>>
    /\ stdout = <<>> /\ stderr = <<>> /\ exitStatus = -1
    /\ ClsOff /\ MaskOff /\ ChatOff

\* lines 173-175: main's handler for an error e raised by the step
Fail(e) ==
    /\ stderr' = Append(stderr, StderrLine(e))
    /\ exitStatus' = 1
    /\ ipc' = "exited"

\* lines 149-163, up to the transcription request of line 90
MainStart ==
    /\ ipc = "start"
    /\ UNCHANGED <<args, audio, envKey, outFile, responses, transcript>>
    /\ LET k == get_api_key(args.api_key, envKey)
           v == validate_audio(audio)
       IN
       IF ~k.ok
       THEN Fail(k.val) /\ UNCHANGED <<stdout, net>>
       ELSE LET using == <<"Using API key: ">> \o mask_key(k.val) IN
            IF args.dry_run
            THEN IF v.ok
                 THEN /\ stdout' = stdout \o << using,
                                      <<"Dry-run mode: Validating audio file...">>,
                                      v.val, <<"Dry-run successful.">> >>
                      /\ exitStatus' = 0
                      /\ ipc' = "exited"
                      /\ UNCHANGED <<stderr, net>>
                 ELSE /\ stdout' = stdout \o << using,
                                      <<"Dry-run mode: Validating audio file...">> >>
                      /\ Fail(v.val)
                      /\ UNCHANGED net
            ELSE IF v.ok
                 THEN /\ stdout' = stdout \o << using, v.val >>
                      /\ net' = Append(net, [call |-> "transcribe", arg |-> AudioPath])
                      /\ ipc' = "transcribing"
                      /\ UNCHANGED <<stderr, exitStatus>>
                 ELSE /\ stdout' = Append(stdout, using)
                      /\ Fail(v.val)
                      /\ UNCHANGED net

\* lines 90-98 and 166, up to the generation request of line 125
TranscribeResponds(resp) ==
    /\ ipc = "transcribing"
    /\ responses' = Append(responses, resp)
    /\ UNCHANGED <<args, audio, envKey, outFile, stdout>>
    /\ LET t == transcribe_audio(resp) IN
       IF t.ok
       THEN /\ transcript' = t.val
            /\ net' = Append(net, [call |-> "generate", arg |-> t.val])
            /\ ipc' = "generating"
            /\ UNCHANGED <<stderr, exitStatus>>
       ELSE Fail(t.val) /\ UNCHANGED <<transcript, net>>

\* lines 125-133, up to the download request
GenerateResponds(resp) ==
    /\ ipc = "generating"
    /\ responses' = Append(responses, resp)
    /\ UNCHANGED <<args, audio, envKey, outFile, stdout, transcript>>
    /\ LET u == image_url(resp) IN
       IF u.ok
       THEN /\ net' = Append(net, [call |-> "download", arg |-> u.val])
            /\ ipc' = "downloading"
            /\ UNCHANGED <<stderr, exitStatus>>
       ELSE Fail(u.val) /\ UNCHANGED net

\* lines 133-139 and 169-171
DownloadResponds(resp) ==
    /\ ipc = "downloading"
    /\ responses' = Append(responses, resp)
    /\ UNCHANGED <<args, audio, envKey, net, transcript>>
    /\ LET d == download(resp) IN
       IF d.ok
       THEN /\ outFile' = "image"
            /\ stdout' = Append(stdout, d.val)
            /\ exitStatus' = 0
            /\ ipc' = "exited"
            /\ UNCHANGED stderr
       ELSE Fail(d.val) /\ UNCHANGED <<outFile, stdout>>

ImgNext ==
    \/ MainStart /\ UNCHANGED <<clsVars, maskVars, chatVars>>
    \/ \E resp \in TranscribeResponses :
          TranscribeResponds(resp) /\ UNCHANGED <<clsVars, maskVars, chatVars>>
    \/ \E resp \in GenerateResponses :
          GenerateResponds(resp) /\ UNCHANGED <<clsVars, maskVars, chatVars>>
    \/ \E resp \in DownloadResponses :
          DownloadResponds(resp) /\ UNCHANGED <<clsVars, maskVars, chatVars>>

SpecImg == ImgInit /\ [][ImgNext]_vars

----------------------------------------------------------------------------
(* Properties of gemini.py *)

NotePrefix == <<"Note: Could not fetch real-time data due to error: ">>

\* C1: when the search of a real-time message raises an error, the prompt
\* is message + "\n\n" + the note prefix + the error text, the turn goes on
\* and send_message is issued exactly once, with that prompt.
C1_SearchErrorBecomesNote ==
    search.state = "raised" =>
        /\ is_real_time_query(user_input)
        /\ prompt = user_input \o <<"\n\n">> \o NotePrefix \o search.err
        /\ pc \in {"invoking", "idle"}
        /\ Len(chatCalls) = 1
        /\ chatCalls[1].prompt = prompt

C1_Witness ==
    /\ search.state = "raised"
    /\ search.err = <<"'snippet'">>
    /\ outcome = "Responded"
    /\ pc = "idle"

\* C2: a message the classifier rejects is sent to the chat session
\* unchanged, and no search request is issued during its turn.
C2_NoSearchWhenNotRealTime ==
    (turn > 0 /\ pc # "done" /\ ~is_real_time_query(user_input)) =>
        /\ search.calls = 0
        /\ search.state = "none"
        /\ prompt = user_input
        /\ Len(chatCalls) = 1
        /\ chatCalls[1].prompt = user_input

C2_Witness ==
    /\ user_input = <<"j","o","k","e">>
    /\ outcome = "Responded"
    /\ chatCalls = << [session |-> 1, prompt |-> <<"j","o","k","e">>] >>
    /\ search.calls = 0

\* the text "- title: snippet" of items[i..n], one line per item
RECURSIVE C3_Lines(_, _, _)
C3_Lines(items, i, n) ==
    IF i > n THEN <<>>
    ELSE (IF i > 1 THEN <<"\n">> ELSE <<>>)
         \o <<"- ">> \o items[i].title \o <<": ">> \o items[i].snippet
         \o C3_Lines(items, i + 1, n)

\* C3: when the search of a real-time message succeeds with N >= 1 items,
\* the prompt is message + "\n\n" + the header + the "- title: snippet"
\* lines of the first min(N,3) items, in the provider's order.
C3_PromptFromTopThree ==
    (search.state = "returned" /\ Len(search.items) >= 1) =>
        prompt = user_input \o <<"\n\n">> \o <<"Real-time data from search:\n">>
                 \o C3_Lines(search.items, 1, Min(Len(search.items), 3))

C3_Witness ==
    /\ search.state = "returned"
    /\ Len(search.items) = 4
    /\ search.items[1] # search.items[2]
    /\ search.items[4] # search.items[3]
    /\ Len(chatCalls) = 1

\* the lower-cased message has keyword kw at some offset
C8_Occurs(kw, msg) ==
    \E i \in 1..Len(msg) :
        /\ i + Len(kw) - 1 <= Len(msg)
        /\ \A j \in 1..Len(kw) : LowerChar(msg[i + j - 1]) = kw[j]

\* C8: is_real_time_query returns true exactly for the messages whose
\* lower-cased text contains one of current, price, weather, today, now,
\* live as a substring.
C8_TrueIffKeyword ==
    isRT # <<>> =>
        (isRT[1] <=>
            \/ C8_Occurs(<<"c","u","r","r","e","n","t">>, query)
            \/ C8_Occurs(<<"p","r","i","c","e">>, query)
            \/ C8_Occurs(<<"w","e","a","t","h","e","r">>, query)
            \/ C8_Occurs(<<"t","o","d","a","y">>, query)
            \/ C8_Occurs(<<"n","o","w">>, query)
            \/ C8_Occurs(<<"l","i","v","e">>, query))

C8_Witness ==
    /\ isRT = <<TRUE>>
    /\ query = <<"L","I","V","E">>

----------------------------------------------------------------------------
(* Properties of img_gen.py *)

\* C9: mask_key keeps the length; a key of at most 8 characters becomes all
\* asterisks; a longer key keeps its first 4 and last 4 characters and has
\* asterisks everywhere between.
C9_MaskShape ==
    masked # <<>> =>
        LET m == masked[1]
            n == Len(key)
        IN /\ Len(m) = n
           /\ n <= 8 => \A i \in 1..n : m[i] = "*"
           /\ n > 8 => \A i \in 1..n :
                           IF i <= 4 \/ i > n - 4 THEN m[i] = key[i]
                           ELSE m[i] = "*"

C9_Witness ==
    /\ masked # <<>>
    /\ Len(key) = 9
    /\ key[1] # key[9]

\* C4: a dry run on an existing readable regular file issues no network
\* call and exits with status 0.
C4_DryRunExitsZero ==
    (args.dry_run /\ audio = "file") =>
        /\ net = <<>>
        /\ ipc = "exited" => exitStatus = 0

\* C5: with a nonexistent --audio path the process exits with status 1 and
\* one error line on stderr, issues no network call and leaves the output
\* path as it was.
C5_MissingAudioFails ==
    audio = "missing" =>
        /\ net = <<>>
        /\ outFile \in {"absent", "old"}
        /\ ipc = "exited" =>
               /\ exitStatus = 1
               /\ Len(stderr) = 1
               /\ stderr[1][1] = "Error: "

C5_Witness ==
    /\ audio = "missing"
    /\ ipc = "exited"
    /\ ~args.dry_run
    /\ stderr = << <<"Error: ", "Audio file not found: ", "in.mp3">> >>
    /\ outFile = "absent"

\* C6: the generation request is the second request, issued after audio
\* validation passed and the transcription request returned status 200 with
\* a text that is not blank, and its prompt is that text stripped; nothing
\* is requested when validation fails.
C6_GenerateAfterTranscript ==
    /\ net # <<>> => (audio = "file" /\ net[1].call = "transcribe")
    /\ \A i \in 1..Len(net) :
          net[i].call = "generate" =>
              /\ i = 2
              /\ Len(responses) >= 1
              /\ responses[1].kind = "http"
              /\ responses[1].status = 200
              /\ responses[1].textTag = "str"
              /\ \E j \in 1..Len(responses[1].text) :
                    responses[1].text[j] \notin {" ", "\t", "\n"}
              /\ net[i].arg = Strip(responses[1].text)
              /\ net[i].arg = transcript
    /\ (Len(responses) >= 1 /\ ~transcribe_audio(responses[1]).ok) =>
          Len(net) = 1

C6_Witness ==
    /\ Len(net) >= 2
    /\ net[2] = [call |-> "generate", arg |-> <<"a"," ","c","a","t">>]
    /\ responses[1].text = <<" ","a"," ","c","a","t","\n">>

\* the success response of the generation request lacks an output URL
C7_LacksUrl(resp) ==
    \/ resp.output.tag = "absent"
    \/ resp.output.tag = "list" /\ resp.output.elems = <<>>
    \/ /\ resp.output.tag = "list" /\ resp.output.elems # <<>>
       /\ \/ resp.output.elems[1].tag = "null"
          \/ resp.output.elems[1].s = <<>>

\* C7: generate_image fails with "Image generation failed" on a non-200
\* generation response, with "No image URL in response." when the 200
\* response lacks an output URL (key absent, list empty, first element null
\* or empty), with "Failed to download image." on a non-200 download; the
\* output file is written only after a 200 download.
C7_GenerateImageFailures ==
    /\ (Len(responses) >= 2 /\ responses[2].kind = "http") =>
          /\ responses[2].status # 200 =>
                /\ exitStatus = 1
                /\ stderr = << <<"Error: ", "Image generation failed: ",
                                 ToString(responses[2].status), " - ">>
                               \o responses[2].body >>
                /\ outFile # "image"
          /\ (responses[2].status = 200 /\ C7_LacksUrl(responses[2])) =>
                /\ exitStatus = 1
                /\ stderr = << <<"Error: ", "No image URL in response.">> >>
                /\ outFile # "image"
    /\ (Len(responses) >= 3 /\ responses[3].kind = "http"
          /\ responses[3].status # 200) =>
          /\ exitStatus = 1
          /\ stderr = << <<"Error: ", "Failed to download image.">> >>
          /\ outFile # "image"
    /\ outFile = "image" =>
          (Len(responses) = 3 /\ responses[3].kind = "http"
             /\ responses[3].status = 200)

====
